---------------------------- MODULE Spec2Model ----------------------------
(***************************************************************************)
(* The pull replication worker (Puller) of couchbase-lite-core as a state  *)
(* machine.  The coordinator's handlers are translated from                *)
(* Replicator/Puller.cc; each handler is one action, and the helper        *)
(* methods it calls (handleMoreChanges, startIncomingRev, ...) are         *)
(* operators on a record of the Puller's fields.  The collaborators whose  *)
(* code is not part of the sources at hand (the missing-sequence set, the  *)
(* Rev-Finder, the Incoming-Rev worker, the returning-revs batcher) are    *)
(* modelled from the specification's description of them.                  *)
(***************************************************************************)
EXTENDS Integers, Sequences, FiniteSets, TLC

(* ------------------------------ bounds -------------------------------- *)

\* Number of change entries the remote announces in all.
MaxChanges == 3

\* Number of changes / proposeChanges messages the remote sends in all.
MaxMsgs == 3

(* --------------------------- tuning constants ------------------------- *)
(* The values are scaled down; the relations between them are kept.        *)

\* tuning::kChangesBatchSize: the batch hint of subChanges, the most changes
\* in one message.
kChangesBatchSize == 2

\* tuning::kMaxPendingRevs
MaxPendingRevs == 2

\* tuning::kMaxActiveIncomingRevs
MaxActiveIncomingRevs == 1

\* tuning::kMaxUnfinishedIncomingRevs
MaxUnfinishedIncomingRevs == 2

(* ------------------------------ values -------------------------------- *)

\* The empty sequence (an empty alloc_slice): "from the beginning" as a
\* since value, "empty/invalid" as the sequence of a change.
NoSeq == 0

\* The sequences an active pull may start from.
SinceSequences == {1}

\* The remote's sequences: those after the since value, for the longest
\* feed.
Seqs == 1..(MaxChanges + 2)

\* The changes of the longest feed, one more than MaxChanges.
ChangeIDs == 1..(MaxChanges + 1)

PullModes == {"oneShot", "continuous", "passive"}

kC4Stopped == "Stopped"

kC4Idle == "Idle"

kC4Busy == "Busy"

Max2(a, b) == IF a >= b THEN a ELSE b

Min2(a, b) == IF a <= b THEN a ELSE b

MinOf(S) == CHOOSE x \in S : \A y \in S : x <= y

MaxOf(S) == CHOOSE x \in S : \A y \in S : x >= y

(* --------------------------- the state -------------------------------- *)

VARIABLES
    pullMode,               \* _options.pull: one-shot, continuous or passive
    noIncomingConflicts,    \* _options.noIncomingConflicts()
    connected,              \* connection() != nullptr
    subChanges,             \* the subChanges request: none, sent, ok, error
    lastSequence,           \* _lastSequence: the cached checkpoint
    missingSequences,       \* _missingSequences: [members, base, added]
    caughtUp,               \* _caughtUp
    skipDeleted,            \* _skipDeleted
    fatalError,             \* _fatalError
    waitingChangesMessages, \* _waitingChangesMessages
    waitingRevMessages,     \* _waitingRevMessages (ids of the revs)
    pendingRevMessages,     \* _pendingRevMessages
    activeIncomingRevs,     \* _activeIncomingRevs
    unfinishedIncomingRevs, \* _unfinishedIncomingRevs
    pendingRevFinderCalls,  \* _pendingRevFinderCalls
    spareIncomingRevs,      \* size of _spareIncomingRevs
    incomingDocIDs,         \* _incomingDocIDs
    returningRevs,          \* _returningRevs: the batcher's queue
    progress,               \* [completed, total]: the units given to addProgress
    revFinderCalls,         \* findOrRequestRevs calls whose callback is due
    revs,                   \* per change id: the rev / Incoming-Rev worker
    finishedDocs,           \* per change id: number of finishedDocument calls
    out,                    \* what the latest handler did: the checkpoints it
                            \* gave updatePullCheckpoint (each with the least
                            \* missing sequence at the call), whether it
                            \* removed the earliest missing sequence, the revs
                            \* it gave finishedDocument, the replies it sent
                            \* and the peak of each counter while it ran
    remote,                 \* how the remote behaves: [bodySizes, repeats,
                            \* changes, msgs], the last two the number of
                            \* changes and of messages it has to send
    announced               \* what the remote has sent: [seq, changes, msgs,
                            \* done], done once its feed has ended

vars == << pullMode, noIncomingConflicts, connected, subChanges, lastSequence,
           missingSequences, caughtUp, skipDeleted, fatalError,
           waitingChangesMessages, waitingRevMessages, pendingRevMessages,
           activeIncomingRevs, unfinishedIncomingRevs, pendingRevFinderCalls,
           spareIncomingRevs, incomingDocIDs, returningRevs, progress,
           revFinderCalls, revs, finishedDocs, out, remote,
           announced >>


(* ----------------------- the missing-sequence set ---------------------- *)
(* An ordered container of (Seq, bodySize) pairs over a base sequence: the *)
(* members, the base it was cleared to, and the sequences added since.     *)
(* The watermark is the low-water mark below which nothing is pending.     *)

EmptyMembers == [x \in {} |-> 0]

\* clear(base)
msClear(b) == [members |-> EmptyMembers, base |-> b, added |-> {}]

\* size()
msSize(ms) == Cardinality(DOMAIN ms.members)

\* An add(seq, bodySize) that gives a sequence already present the new body
\* size.
msAddOverwrites(ms, s, bodySize) ==
    [ms EXCEPT !.members =
                   [x \in (DOMAIN ms.members) \cup {s} |->
                        IF x = s THEN bodySize ELSE ms.members[x]],
               !.added = @ \cup {s}]

\* add(seq, bodySize): adding a sequence already present changes nothing.
msAdd(ms, s, bodySize) ==
    IF s \in DOMAIN ms.members
    THEN ms
    ELSE [ms EXCEPT !.members =
                        [x \in (DOMAIN ms.members) \cup {s} |->
                             IF x = s THEN bodySize ELSE ms.members[x]],
                    !.added = @ \cup {s}]

\* bodySizeOfSequence(seq)
msBodySizeOfSequence(ms, s) ==
    IF s \in DOMAIN ms.members THEN ms.members[s] ELSE 0

\* remove(seq) -> (wasEarliest, bodySize): removing a sequence that is not
\* present is a no-op; wasEarliest tells whether seq was the minimum.
msRemove(ms, s) ==
    IF s \notin DOMAIN ms.members
    THEN [ms |-> ms, wasEarliest |-> FALSE, bodySize |-> 0]
    ELSE LET rest == (DOMAIN ms.members) \ {s}
         IN  [ms |-> [ms EXCEPT !.members = [x \in rest |-> ms.members[x]]],
              wasEarliest |-> (s = MinOf(DOMAIN ms.members)),
              bodySize |-> ms.members[s]]

\* A since() that returns the last sequence added.
msSinceLastAdded(ms) == MaxOf({ms.base} \cup ms.added)

\* since(): the greatest sequence such that every sequence up to it that
\* was ever added has been removed; the base while there is none.
msSince(ms) ==
    MaxOf({ms.base} \cup
          { q \in ms.added :
              \A a \in ms.added : a <= q => a \notin DOMAIN ms.members })

\* The least member, NoSeq when there is none.
msEarliest(ms) ==
    IF DOMAIN ms.members = {} THEN NoSeq ELSE MinOf(DOMAIN ms.members)

(* The set as its operations are described one by one: the base sequence  *)
(* is kept as a field of its own, watermark, which remove advances.       *)

\* clear(base), the watermark standing at the base.
ruleClear(b) ==
    [members |-> EmptyMembers, base |-> b, added |-> {}, watermark |-> b]

\* A remove(seq) that advances the watermark to the greatest member.
ruleRemoveToGreatest(ms, s) ==
    LET r == msRemove(ms, s)
        left == DOMAIN r.ms.members
    IN  [r.ms EXCEPT !.watermark =
            IF r.wasEarliest
            THEN (IF left = {} THEN s ELSE MaxOf(left))
            ELSE @]

\* remove(seq): when seq was the minimum element the base is advanced to
\* the next-smallest member, or to seq if the set becomes empty.
ruleRemove(ms, s) ==
    LET r == msRemove(ms, s)
        left == DOMAIN r.ms.members
    IN  [r.ms EXCEPT !.watermark =
            IF r.wasEarliest
            THEN (IF left = {} THEN s ELSE MinOf(left))
            ELSE @]

\* since() by the rule: the base if the set is non-empty, else the greatest
\* removed sequence (the base while none has been removed).
ruleSince(ms) ==
    IF DOMAIN ms.members # {}
    THEN ms.watermark
    ELSE IF ms.added = {} THEN ms.watermark ELSE MaxOf(ms.added)

(* --------------------- the Puller's fields as a record ----------------- *)

Cur ==
    [lastSequence |-> lastSequence,
     missingSequences |-> missingSequences,
     caughtUp |-> caughtUp,
     skipDeleted |-> skipDeleted,
     fatalError |-> fatalError,
     waitingChangesMessages |-> waitingChangesMessages,
     waitingRevMessages |-> waitingRevMessages,
     pendingRevMessages |-> pendingRevMessages,
     activeIncomingRevs |-> activeIncomingRevs,
     unfinishedIncomingRevs |-> unfinishedIncomingRevs,
     pendingRevFinderCalls |-> pendingRevFinderCalls,
     spareIncomingRevs |-> spareIncomingRevs,
     incomingDocIDs |-> incomingDocIDs,
     returningRevs |-> returningRevs,
     progress |-> progress,
     revFinderCalls |-> revFinderCalls,
     revs |-> revs,
     finishedDocs |-> finishedDocs,
     out |-> out]

\* The Puller as a handler finds it: nothing done yet, the peaks at the
\* counters' present values.
Begin ==
    [Cur EXCEPT !.out = [checkpoints |-> <<>>,
                         removedEarliest |-> FALSE,
                         notified |-> <<>>,
                         replies |-> <<>>,
                         peak |-> [pending |-> pendingRevMessages,
                                   active |-> activeIncomingRevs,
                                   unfinished |-> unfinishedIncomingRevs]]]

Commit(s) ==
    /\ lastSequence' = s.lastSequence
    /\ missingSequences' = s.missingSequences
    /\ caughtUp' = s.caughtUp
    /\ skipDeleted' = s.skipDeleted
    /\ fatalError' = s.fatalError
    /\ waitingChangesMessages' = s.waitingChangesMessages
    /\ waitingRevMessages' = s.waitingRevMessages
    /\ pendingRevMessages' = s.pendingRevMessages
    /\ activeIncomingRevs' = s.activeIncomingRevs
    /\ unfinishedIncomingRevs' = s.unfinishedIncomingRevs
    /\ pendingRevFinderCalls' = s.pendingRevFinderCalls
    /\ spareIncomingRevs' = s.spareIncomingRevs
    /\ incomingDocIDs' = s.incomingDocIDs
    /\ returningRevs' = s.returningRevs
    /\ progress' = s.progress
    /\ revFinderCalls' = s.revFinderCalls
    /\ revs' = s.revs
    /\ finishedDocs' = s.finishedDocs
    /\ out' = s.out

\* Worker::nonPassive(): this side started the pull.
nonPassive == pullMode # "passive"

\* Worker::isOpenServer(): the Puller serves as the passive endpoint of an
\* open connection.
isOpenServer == connected /\ pullMode = "passive"

\* Worker::addProgress({completed, total})
addProgress(s, completed, total) ==
    [s EXCEPT !.progress = [completed |-> @.completed + completed,
                            total |-> @.total + total]]

\* increment(counter), with the counter's peak kept.
increment(s, counter) ==
    CASE counter = "pendingRevMessages" ->
           [s EXCEPT !.pendingRevMessages = @ + 1,
                     !.out.peak.pending = Max2(@, s.pendingRevMessages + 1)]
      [] counter = "activeIncomingRevs" ->
           [s EXCEPT !.activeIncomingRevs = @ + 1,
                     !.out.peak.active = Max2(@, s.activeIncomingRevs + 1)]
      [] counter = "unfinishedIncomingRevs" ->
           [s EXCEPT !.unfinishedIncomingRevs = @ + 1,
                     !.out.peak.unfinished = Max2(@, s.unfinishedIncomingRevs + 1)]
      [] counter = "pendingRevFinderCalls" ->
           [s EXCEPT !.pendingRevFinderCalls = @ + 1]

(* ------------------------- checkpoint advance -------------------------- *)

\* An updateLastSequence that takes the last sequence seen for the
\* checkpoint.
updateLastSequenceLastSeen(s) ==
    LET since == MaxOf({s.missingSequences.base}
                       \cup s.missingSequences.added)
    IN  IF since # s.lastSequence
        THEN [s EXCEPT !.lastSequence = since,
                       !.out.checkpoints = Append(@,
                           [seq |-> since,
                            earliest |-> msEarliest(s.missingSequences)])]
        ELSE s

\* Puller::updateLastSequence
updateLastSequence(s) ==
    LET since == msSince(s.missingSequences)
    IN  IF since # s.lastSequence
        THEN [s EXCEPT !.lastSequence = since,
                       !.out.checkpoints = Append(@,
                           [seq |-> since,
                            earliest |-> msEarliest(s.missingSequences)])]
        ELSE s

\* A completedSequence that moves the checkpoint to every sequence it
\* removes.
completedSequenceToCompleted(s, sequence, withTransientError, shouldUpdateLastSequence) ==
    IF withTransientError
    THEN addProgress(s, msBodySizeOfSequence(s.missingSequences, sequence), 0)
    ELSE LET r == msRemove(s.missingSequences, sequence)
             s1 == [s EXCEPT !.missingSequences = r.ms,
                             !.out.removedEarliest = @ \/ r.wasEarliest]
             s2 == IF r.ms # s.missingSequences /\ shouldUpdateLastSequence
                   THEN [s1 EXCEPT !.lastSequence = sequence,
                                   !.out.checkpoints = Append(@,
                                       [seq |-> sequence,
                                        earliest |-> msEarliest(r.ms)])]
                   ELSE s1
         IN  addProgress(s2, r.bodySize, 0)

\* A completedSequence that removes the sequence whatever the error.
completedSequenceAlwaysRemoves(s, sequence, withTransientError, shouldUpdateLastSequence) ==
    LET r == msRemove(s.missingSequences, sequence)
        s1 == [s EXCEPT !.missingSequences = r.ms,
                        !.out.removedEarliest = @ \/ r.wasEarliest]
        s2 == IF r.wasEarliest /\ shouldUpdateLastSequence
              THEN updateLastSequence(s1)
              ELSE s1
    IN  addProgress(s2, r.bodySize, 0)

\* Puller::completedSequence
completedSequence(s, sequence, withTransientError, shouldUpdateLastSequence) ==
    IF withTransientError
    THEN addProgress(s, msBodySizeOfSequence(s.missingSequences, sequence), 0)
    ELSE LET r == msRemove(s.missingSequences, sequence)
             s1 == [s EXCEPT !.missingSequences = r.ms,
                             !.out.removedEarliest = @ \/ r.wasEarliest]
             s2 == IF r.wasEarliest /\ shouldUpdateLastSequence
                   THEN updateLastSequence(s1)
                   ELSE s1
         IN  addProgress(s2, r.bodySize, 0)

(* ----------------------- incoming change lists ------------------------- *)

\* The rev of change id, as the remote and the Incoming-Rev worker see it.
setRev(s, id, state) == [s EXCEPT !.revs[id].state = state]

\* The Rev-Finder's part of findOrRequestRevs for one wanted change: the
\* docID joins the shared incoming-docID set and the rev is requested.
requestRev(s, e) ==
    [s EXCEPT !.incomingDocIDs = @ \cup {e.id},
              !.revs[e.id] = [@ EXCEPT !.state = "requested",
                                       !.seq = e.seq]]

\* A loop iteration that adds the sequence of a change that is not wanted
\* and leaves it in the set.
revFinderEntryKeepsUnwanted(s, e, requesting) ==
    LET bodySize == IF requesting THEN Max2(e.bodySize, 1) ELSE 0
        s1 == IF nonPassive
              THEN LET a == IF e.seq # NoSeq
                            THEN [s EXCEPT !.missingSequences =
                                      msAdd(@, e.seq, bodySize)]
                            ELSE s
                   IN  addProgress(a, 0, bodySize)
              ELSE s
    IN  IF requesting
        THEN increment(requestRev(s1, e), "pendingRevMessages")
        ELSE setRev(s1, e.id, "unwanted")

\* A loop iteration that counts the awaited rev in an active pull only.
revFinderEntryCountsActiveOnly(s, e, requesting) ==
    LET bodySize == IF requesting THEN Max2(e.bodySize, 1) ELSE 0
        s1 == IF nonPassive
              THEN LET a == IF e.seq # NoSeq
                            THEN [s EXCEPT !.missingSequences =
                                      msAdd(@, e.seq, bodySize)]
                            ELSE s
                       b == addProgress(a, 0, bodySize)
                   IN  IF ~requesting
                       THEN completedSequence(b, e.seq, FALSE, TRUE)
                       ELSE increment(b, "pendingRevMessages")
              ELSE s
    IN  IF requesting
        THEN requestRev(s1, e)
        ELSE setRev(s1, e.id, "unwanted")

\* One iteration of the loop of the Rev-Finder callback (handleChangesNow).
revFinderEntry(s, e, requesting) ==
    LET bodySize == IF requesting THEN Max2(e.bodySize, 1) ELSE 0
        s1 == IF nonPassive
              THEN LET a == IF e.seq # NoSeq
                            THEN [s EXCEPT !.missingSequences =
                                      msAdd(@, e.seq, bodySize)]
                            ELSE s
                       b == addProgress(a, 0, bodySize)
                   IN  IF ~requesting
                       THEN completedSequence(b, e.seq, FALSE, TRUE)
                       ELSE b
              ELSE s
    IN  IF requesting
        THEN increment(requestRev(s1, e), "pendingRevMessages")
        ELSE setRev(s1, e.id, "unwanted")

RECURSIVE revFinderLoop(_, _, _, _)
revFinderLoop(s, entries, which, i) ==
    IF i > Len(which)
    THEN s
    ELSE revFinderLoop(revFinderEntry(s, entries[i], which[i]),
                       entries, which, i + 1)

\* The callback handleChangesNow gives to findOrRequestRevs, run with the
\* Rev-Finder's answer `which`.
revFinderCallback(s, req, which) ==
    revFinderLoop([s EXCEPT !.pendingRevFinderCalls = @ - 1],
                  req.entries, which, 1)

\* MessageIn::respond / respondWithError
respond(s, profile, code) ==
    [s EXCEPT !.out.replies = Append(@, [to |-> profile, code |-> code])]

\* A handleChangesNow that takes every body that is no array for the end
\* of the feed.
handleChangesNowNoBodyTest(s, req) ==
    IF req.kind # "array"
    THEN respond([s EXCEPT !.caughtUp = TRUE, !.skipDeleted = FALSE],
                 req.profile, "ok")
    ELSE IF req.noReply
    THEN s
    ELSE IF noIncomingConflicts /\ req.profile # "proposeChanges"
    THEN respond(s, req.profile, "409")
    ELSE [increment(s, "pendingRevFinderCalls")
             EXCEPT !.revFinderCalls = Append(@, req)]

\* A handleChangesNow without the conflict-free test.
handleChangesNowAnyProfile(s, req) ==
    IF req.kind = "invalid"
    THEN respond(s, req.profile, "400")
    ELSE IF req.kind # "array"
    THEN respond([s EXCEPT !.caughtUp = TRUE, !.skipDeleted = FALSE],
                 req.profile, "ok")
    ELSE IF req.noReply
    THEN s
    ELSE [increment(s, "pendingRevFinderCalls")
             EXCEPT !.revFinderCalls = Append(@, req)]

\* A handleChangesNow that refuses the changes profile in conflict-free mode
\* before it looks at the body.
handleChangesNowConflictFirst(s, req) ==
    IF req.kind = "invalid"
    THEN respond(s, req.profile, "400")
    ELSE IF noIncomingConflicts /\ req.profile # "proposeChanges"
    THEN respond(s, req.profile, "409")
    ELSE IF req.kind # "array"
    THEN respond([s EXCEPT !.caughtUp = TRUE, !.skipDeleted = FALSE],
                 req.profile, "ok")
    ELSE IF req.noReply
    THEN s
    ELSE [increment(s, "pendingRevFinderCalls")
             EXCEPT !.revFinderCalls = Append(@, req)]

\* Puller::handleChangesNow, up to the call of the Rev-Finder.  The body is
\* "invalid" (no array, and not the text null), "null", "empty" (the array
\* []) or "array" (an array of changes).
handleChangesNow(s, req) ==
    IF req.kind = "invalid"
    THEN respond(s, req.profile, "400")
    ELSE IF req.kind # "array"
    THEN respond([s EXCEPT !.caughtUp = TRUE, !.skipDeleted = FALSE],
                 req.profile, "ok")
    ELSE IF req.noReply
    THEN s
    ELSE IF noIncomingConflicts /\ req.profile # "proposeChanges"
    THEN respond(s, req.profile, "409")
    ELSE [increment(s, "pendingRevFinderCalls")
             EXCEPT !.revFinderCalls = Append(@, req)]

\* A handleMoreChanges that still takes a message when pendingRevMessages
\* stands at the cap.
RECURSIVE handleMoreChangesAtCap(_)
handleMoreChangesAtCap(s) ==
    IF s.waitingChangesMessages # <<>>
       /\ s.pendingRevMessages <= MaxPendingRevs
    THEN handleMoreChangesAtCap(
             handleChangesNow(
                 [s EXCEPT !.waitingChangesMessages = Tail(@)],
                 Head(s.waitingChangesMessages)))
    ELSE s

\* Puller::handleMoreChanges
RECURSIVE handleMoreChanges(_)
handleMoreChanges(s) ==
    IF s.waitingChangesMessages # <<>>
       /\ s.pendingRevMessages < MaxPendingRevs
    THEN handleMoreChanges(
             handleChangesNow(
                 [s EXCEPT !.waitingChangesMessages = Tail(@)],
                 Head(s.waitingChangesMessages)))
    ELSE s

\* Puller::handleChanges
handleChanges(s, req) ==
    handleMoreChanges([s EXCEPT !.waitingChangesMessages = Append(@, req)])

(* --------------------------- incoming revs ----------------------------- *)

\* Puller::startIncomingRev
startIncomingRev(s, id) ==
    LET s1 == [s EXCEPT !.pendingRevMessages = @ - 1]
        s2 == increment(increment(s1, "activeIncomingRevs"),
                        "unfinishedIncomingRevs")
        s3 == IF s2.spareIncomingRevs = 0
              THEN [s2 EXCEPT !.revs[id].reused = FALSE]
              ELSE [s2 EXCEPT !.spareIncomingRevs = @ - 1,
                              !.revs[id].reused = TRUE]
    IN  handleMoreChanges(setRev(s3, id, "active"))

\* A handleRev that does not look at activeIncomingRevs.
handleRevAnyActive(s, id) ==
    IF s.unfinishedIncomingRevs < MaxUnfinishedIncomingRevs
    THEN startIncomingRev(s, id)
    ELSE [setRev(s, id, "waiting")
             EXCEPT !.waitingRevMessages = Append(@, id)]

\* Puller::handleRev
handleRev(s, id) ==
    IF s.activeIncomingRevs < MaxActiveIncomingRevs
       /\ s.unfinishedIncomingRevs < MaxUnfinishedIncomingRevs
    THEN startIncomingRev(s, id)
    ELSE [setRev(s, id, "waiting")
             EXCEPT !.waitingRevMessages = Append(@, id)]

\* A handleNoRev that leaves the docID in the incoming-docID set.
handleNoRevKeepsDocID(s, id, sequence, noReply) ==
    LET s1 == [s EXCEPT !.pendingRevMessages = @ - 1]
        s2 == IF sequence # NoSeq
              THEN completedSequence(s1, sequence, FALSE, TRUE)
              ELSE s1
        s3 == setRev(handleMoreChanges(s2), id,
                     IF sequence # NoSeq THEN "norev" ELSE "norevNoSequence")
    IN  IF ~noReply THEN respond(s3, "norev", "ok") ELSE s3

\* A handleNoRev that does not run the changes pump.
handleNoRevNoPump(s, id, sequence, noReply) ==
    LET s1 == [s EXCEPT !.incomingDocIDs = @ \ {id},
                        !.pendingRevMessages = @ - 1]
        s2 == IF sequence # NoSeq
              THEN completedSequence(s1, sequence, FALSE, TRUE)
              ELSE s1
        s3 == setRev(s2, id,
                     IF sequence # NoSeq THEN "norev" ELSE "norevNoSequence")
    IN  IF ~noReply THEN respond(s3, "norev", "ok") ELSE s3

\* Puller::handleNoRev
handleNoRev(s, id, sequence, noReply) ==
    LET s1 == [s EXCEPT !.incomingDocIDs = @ \ {id},
                        !.pendingRevMessages = @ - 1]
        s2 == IF sequence # NoSeq
              THEN completedSequence(s1, sequence, FALSE, TRUE)
              ELSE s1
        s3 == setRev(handleMoreChanges(s2), id,
                     IF sequence # NoSeq THEN "norev" ELSE "norevNoSequence")
    IN  IF ~noReply THEN respond(s3, "norev", "ok") ELSE s3

\* A _revWasProvisionallyHandled that does not look at
\* unfinishedIncomingRevs.
revWasProvisionallyHandledAnyUnfinished(s) ==
    LET s1 == [s EXCEPT !.activeIncomingRevs = @ - 1]
    IN  IF s1.activeIncomingRevs < MaxActiveIncomingRevs
           /\ s1.waitingRevMessages # <<>>
        THEN handleMoreChanges(
                 startIncomingRev(
                     [s1 EXCEPT !.waitingRevMessages = Tail(@)],
                     Head(s1.waitingRevMessages)))
        ELSE s1

\* Puller::_revWasProvisionallyHandled
revWasProvisionallyHandled(s) ==
    LET s1 == [s EXCEPT !.activeIncomingRevs = @ - 1]
    IN  IF s1.activeIncomingRevs < MaxActiveIncomingRevs
           /\ s1.unfinishedIncomingRevs < MaxUnfinishedIncomingRevs
           /\ s1.waitingRevMessages # <<>>
        THEN handleMoreChanges(
                 startIncomingRev(
                     [s1 EXCEPT !.waitingRevMessages = Tail(@)],
                     Head(s1.waitingRevMessages)))
        ELSE s1

\* Puller::revWasHandled
revWasHandled(s, id) ==
    [s EXCEPT !.incomingDocIDs = @ \ {id},
              !.returningRevs = Append(@, id)]

\* A loop iteration that does not report a failed rev to finishedDocument.
revsFinishedRevSilentOnError(s, id) ==
    LET s1 == IF ~s.revs[id].wasProvisionallyInserted
              THEN revWasProvisionallyHandled(s)
              ELSE s
        s2 == IF nonPassive
              THEN completedSequence(s1, s1.revs[id].seq,
                                     s1.revs[id].errorIsTransient, FALSE)
              ELSE s1
        s3 == [s2 EXCEPT !.revs[id] = [@ EXCEPT !.state = "finished",
                                        !.wasProvisionallyInserted = FALSE,
                                        !.error = FALSE]]
    IN  IF s.revs[id].error
        THEN s3
        ELSE [s3 EXCEPT !.finishedDocs[id] = @ + 1,
                        !.out.notified = Append(@, [id |-> id,
                                                    error |-> FALSE])]

\* A loop iteration that keeps the sequence of every failed rev, the error
\* transient or not.
revsFinishedRevKeepsFailed(s, id) ==
    LET s1 == IF ~s.revs[id].wasProvisionallyInserted
              THEN revWasProvisionallyHandled(s)
              ELSE s
        s2 == IF nonPassive
              THEN completedSequence(s1, s1.revs[id].seq,
                                     s1.revs[id].error, FALSE)
              ELSE s1
    IN  [s2 EXCEPT !.finishedDocs[id] = @ + 1,
                   !.out.notified = Append(@, [id |-> id,
                                               error |-> s.revs[id].error]),
                   !.revs[id] = [@ EXCEPT !.state = "finished",
                                          !.wasProvisionallyInserted = FALSE,
                                          !.error = FALSE]]

\* A loop iteration that does not mark the rev's sequence complete.
revsFinishedRevNoCompletion(s, id) ==
    LET s1 == IF ~s.revs[id].wasProvisionallyInserted
              THEN revWasProvisionallyHandled(s)
              ELSE s
    IN  [s1 EXCEPT !.finishedDocs[id] = @ + 1,
                   !.out.notified = Append(@, [id |-> id,
                                               error |-> s.revs[id].error]),
                   !.revs[id] = [@ EXCEPT !.state = "finished",
                                          !.wasProvisionallyInserted = FALSE,
                                          !.error = FALSE]]

\* A loop iteration that takes the provisional path for every worker.
revsFinishedRevAlwaysProvisional(s, id) ==
    LET s1 == revWasProvisionallyHandled(s)
        s2 == IF nonPassive
              THEN completedSequence(s1, s1.revs[id].seq,
                                     s1.revs[id].errorIsTransient, FALSE)
              ELSE s1
    IN  [s2 EXCEPT !.finishedDocs[id] = @ + 1,
                   !.out.notified = Append(@, [id |-> id,
                                               error |-> s.revs[id].error]),
                   !.revs[id] = [@ EXCEPT !.state = "finished",
                                          !.wasProvisionallyInserted = FALSE,
                                          !.error = FALSE]]

\* One iteration of the loop of Puller::_revsFinished.
revsFinishedRev(s, id) ==
    LET s1 == IF ~s.revs[id].wasProvisionallyInserted
              THEN revWasProvisionallyHandled(s)
              ELSE s
        s2 == IF nonPassive
              THEN completedSequence(s1, s1.revs[id].seq,
                                     s1.revs[id].errorIsTransient, FALSE)
              ELSE s1
    IN  [s2 EXCEPT !.finishedDocs[id] = @ + 1,
                   !.out.notified = Append(@, [id |-> id,
                                               error |-> s.revs[id].error]),
                   !.revs[id] = [@ EXCEPT !.state = "finished",
                                          !.wasProvisionallyInserted = FALSE,
                                          !.error = FALSE]]

RECURSIVE revsFinishedLoop(_, _)
revsFinishedLoop(s, batch) ==
    IF batch = <<>>
    THEN s
    ELSE revsFinishedLoop(revsFinishedRev(s, Head(batch)), Tail(batch))

\* A _revsFinished without its call of updateLastSequence.
revsFinishedNoUpdate(s) ==
    LET batch == s.returningRevs
        s1 == revsFinishedLoop([s EXCEPT !.returningRevs = <<>>], batch)
        s2 == [s1 EXCEPT !.unfinishedIncomingRevs = @ - Len(batch)]
        capacity == MaxActiveIncomingRevs - s2.spareIncomingRevs
    IN  IF capacity > 0
        THEN [s2 EXCEPT !.spareIncomingRevs = @ + Min2(capacity, Len(batch))]
        ELSE s2

\* A _revsFinished that returns every worker of the batch to the spare pool.
revsFinishedPoolsAll(s) ==
    LET batch == s.returningRevs
        s1 == revsFinishedLoop([s EXCEPT !.returningRevs = <<>>], batch)
        s2 == [s1 EXCEPT !.unfinishedIncomingRevs = @ - Len(batch)]
        s3 == IF nonPassive THEN updateLastSequence(s2) ELSE s2
    IN  [s3 EXCEPT !.spareIncomingRevs = @ + Len(batch)]

\* Puller::_revsFinished: the batch is every rev the batcher holds.
revsFinished(s) ==
    LET batch == s.returningRevs
        s1 == revsFinishedLoop([s EXCEPT !.returningRevs = <<>>], batch)
        s2 == [s1 EXCEPT !.unfinishedIncomingRevs = @ - Len(batch)]
        s3 == IF nonPassive THEN updateLastSequence(s2) ELSE s2
        capacity == MaxActiveIncomingRevs - s3.spareIncomingRevs
    IN  IF capacity > 0
        THEN [s3 EXCEPT !.spareIncomingRevs = @ + Min2(capacity, Len(batch))]
        ELSE s3

(* ------------------------- status / progress --------------------------- *)

\* Worker::computeActivityLevel: the base worker is busy while a request
\* awaits its reply, here the subChanges request.
baseWorkerBusy == subChanges = "sent"

\* A level that does not look at pendingRevFinderCalls.
activityLevelIgnoresRevFinder(s) ==
    IF s.fatalError \/ ~connected
    THEN kC4Stopped
    ELSE IF \/ baseWorkerBusy
            \/ (~s.caughtUp /\ nonPassive)
            \/ s.pendingRevMessages > 0
            \/ s.unfinishedIncomingRevs > 0
    THEN kC4Busy
    ELSE IF pullMode = "continuous" \/ isOpenServer
    THEN kC4Idle
    ELSE kC4Stopped

\* A level that looks at the counters before the fatal error.
activityLevelBusyFirst(s) ==
    IF ~connected
    THEN kC4Stopped
    ELSE IF \/ baseWorkerBusy
            \/ (~s.caughtUp /\ nonPassive)
            \/ s.pendingRevMessages > 0
            \/ s.unfinishedIncomingRevs > 0
            \/ s.pendingRevFinderCalls > 0
    THEN kC4Busy
    ELSE IF s.fatalError
    THEN kC4Stopped
    ELSE IF pullMode = "continuous" \/ isOpenServer
    THEN kC4Idle
    ELSE kC4Stopped

\* Puller::computeActivityLevel: the level it returns.
activityLevel(s) ==
    IF s.fatalError \/ ~connected
    THEN kC4Stopped
    ELSE IF \/ baseWorkerBusy
            \/ (~s.caughtUp /\ nonPassive)
            \/ s.pendingRevMessages > 0
            \/ s.unfinishedIncomingRevs > 0
            \/ s.pendingRevFinderCalls > 0
    THEN kC4Busy
    ELSE IF pullMode = "continuous" \/ isOpenServer
    THEN kC4Idle
    ELSE kC4Stopped

\* A computeActivityLevel that releases the spare workers whatever the
\* level.
computeActivityLevelAlwaysClears(s) == [s EXCEPT !.spareIncomingRevs = 0]

\* Puller::computeActivityLevel: its effect on the Puller (the spare workers
\* are released on the way to Idle).
computeActivityLevel(s) ==
    IF activityLevel(s) = kC4Idle
    THEN [s EXCEPT !.spareIncomingRevs = 0]
    ELSE s

(* ------------------------------ the remote ----------------------------- *)

NoRev == [state |-> "none", seq |-> NoSeq,
          wasProvisionallyInserted |-> FALSE, error |-> FALSE,
          errorIsTransient |-> FALSE, reused |-> FALSE]

\* The sequences the remote may give its next change: the next one of its
\* feed or, for a remote that repeats itself, the latest one again.
NextSeqs(last, any) ==
    ({last + 1} \cup (IF any /\ remote.repeats THEN {last} ELSE {})) \cap Seqs

\* The lists of n change entries the remote may announce next, the change
\* ids counted from id and the feed standing at sequence last.
RECURSIVE EntryLists(_, _, _, _)
EntryLists(n, id, last, any) ==
    IF n = 0
    THEN {<<>>}
    ELSE UNION {
           { <<[id |-> id, seq |-> q, bodySize |-> b]>> \o rest :
               rest \in EntryLists(n - 1, id + 1, q, TRUE) } :
           q \in NextSeqs(last, any), b \in remote.bodySizes }

LastSeqOf(entries) == entries[Len(entries)].seq

\* The profiles the remote uses: which of the two it is matters to the
\* Puller in conflict-free mode only.
Profiles ==
    IF noIncomingConflicts THEN {"changes", "proposeChanges"} ELSE {"changes"}

(* ------------------------------- actions ------------------------------- *)

\* The Puller after construction, for a pull of one of the modes, with or
\* without conflict-free mode, and a remote that behaves as rem.
InitWith(modes, conflictFree, rem) ==
    /\ pullMode \in modes
    /\ noIncomingConflicts \in conflictFree
    /\ remote = rem
    /\ skipDeleted = TRUE
    /\ connected = TRUE
    /\ subChanges = "none"
    /\ lastSequence = NoSeq
    /\ missingSequences = msClear(NoSeq)
    /\ caughtUp = FALSE
    /\ fatalError = FALSE
    /\ waitingChangesMessages = <<>>
    /\ waitingRevMessages = <<>>
    /\ pendingRevMessages = 0
    /\ activeIncomingRevs = 0
    /\ unfinishedIncomingRevs = 0
    /\ pendingRevFinderCalls = 0
    /\ spareIncomingRevs = 0
    /\ incomingDocIDs = {}
    /\ returningRevs = <<>>
    /\ progress = [completed |-> 0, total |-> 0]
    /\ revFinderCalls = <<>>
    /\ revs = [id \in ChangeIDs |-> NoRev]
    /\ finishedDocs = [id \in ChangeIDs |-> 0]
    /\ out = [checkpoints |-> <<>>, removedEarliest |-> FALSE,
              notified |-> <<>>, replies |-> <<>>,
              peak |-> [pending |-> 0, active |-> 0, unfinished |-> 0]]
    /\ announced = [seq |-> NoSeq, changes |-> 0, msgs |-> 0, done |-> FALSE]

\* Conflict-free mode goes with a passive pull (the constructor warns of it
\* in an active one); the remote announces each sequence once, every body
\* of size 2.
Init ==
    /\ InitWith(PullModes, BOOLEAN,
                [bodySizes |-> {2}, repeats |-> FALSE,
                 changes |-> MaxChanges, msgs |-> MaxMsgs])
    /\ noIncomingConflicts => pullMode = "passive"

\* A one-shot pull from a remote with one change and one message less.
OneShotInit ==
    InitWith({"oneShot"}, {FALSE},
             [bodySizes |-> {2}, repeats |-> FALSE,
              changes |-> MaxChanges - 1, msgs |-> MaxMsgs - 1])

Env == << pullMode, noIncomingConflicts, connected, subChanges, remote,
         announced >>

\* Puller::_start: an active pull starts from sinceSequence and sends the
\* subChanges request.
Start(sinceSequence) ==
    /\ nonPassive
    /\ connected
    /\ subChanges = "none"
    /\ Commit([Begin EXCEPT !.lastSequence = sinceSequence,
                          !.missingSequences = msClear(sinceSequence)])
    /\ subChanges' = "sent"
    /\ announced' = [announced EXCEPT !.seq = sinceSequence]
    /\ UNCHANGED << pullMode, noIncomingConflicts, connected, remote >>

\* The callback of sendRequest in Puller::_start: the reply has arrived.
SubChangesReply(isError) ==
    /\ connected
    /\ subChanges = "sent"
    /\ subChanges' = IF isError THEN "error" ELSE "ok"
    /\ Commit(IF isError THEN [Begin EXCEPT !.fatalError = TRUE] ELSE Begin)
    /\ UNCHANGED << pullMode, noIncomingConflicts, connected, remote,
                    announced >>

\* A changes or proposeChanges message arrives: Puller::handleChanges.  The
\* feed of a one-shot pull ends with the empty batch; that of a continuous or
\* passive pull goes on.
HandleChanges(req) ==
    /\ connected
    /\ ~announced.done
    /\ nonPassive => subChanges # "none"
    /\ announced.msgs < remote.msgs
    /\ Commit(handleChanges(Begin, req))
    /\ announced' =
         IF req.kind = "array"
         THEN [announced EXCEPT !.seq = LastSeqOf(req.entries),
                                !.changes = @ + Len(req.entries),
                                !.msgs = @ + 1]
         ELSE [announced EXCEPT !.msgs = @ + 1,
                                !.done = (req.kind = "empty"
                                          /\ pullMode = "oneShot")]
    /\ UNCHANGED << pullMode, noIncomingConflicts, connected, subChanges,
                    remote >>

\* The messages the remote may send next.
ChangesMessages ==
    { [profile |-> p, kind |-> k, noReply |-> FALSE, entries |-> <<>>] :
        p \in Profiles, k \in {"invalid", "null", "empty"} }
    \cup
    UNION { { [profile |-> p, kind |-> "array", noReply |-> r,
               entries |-> es] :
                p \in Profiles, r \in BOOLEAN,
                es \in EntryLists(n, announced.changes + 1, announced.seq,
                                  announced.changes > 0) } :
            n \in 1..Min2(kChangesBatchSize,
                          remote.changes - announced.changes) }

\* The Rev-Finder answers the oldest outstanding findOrRequestRevs call.
RevFinderCallback(which) ==
    /\ revFinderCalls # <<>>
    /\ DOMAIN which = 1..Len(Head(revFinderCalls).entries)
    /\ Commit(revFinderCallback([Begin EXCEPT !.revFinderCalls = Tail(@)],
                                Head(revFinderCalls), which))
    /\ UNCHANGED Env

\* The rev message of a requested change arrives: Puller::handleRev.
HandleRev(id) ==
    /\ connected
    /\ revs[id].state = "requested"
    /\ Commit(handleRev(Begin, id))
    /\ UNCHANGED Env

\* The remote refuses a requested rev: Puller::handleNoRev.
HandleNoRev(id, withSequence, noReply) ==
    /\ connected
    /\ revs[id].state = "requested"
    /\ Commit(handleNoRev(Begin, id,
                          IF withSequence THEN revs[id].seq ELSE NoSeq,
                          noReply))
    /\ UNCHANGED Env

\* An Incoming-Rev worker reports that its rev is written but not yet
\* committed: Puller::_revWasProvisionallyHandled.
RevWasProvisionallyHandled(id) ==
    /\ revs[id].state = "active"
    /\ ~revs[id].wasProvisionallyInserted
    /\ Commit(revWasProvisionallyHandled(
                 [Begin EXCEPT !.revs[id].wasProvisionallyInserted = TRUE]))
    /\ UNCHANGED Env

\* An Incoming-Rev worker is done, with success, a permanent error or a
\* transient error: Puller::revWasHandled.  A worker that has not reported
\* its provisional insertion has failed before staging.
RevWasHandled(id, outcome) ==
    /\ revs[id].state = "active"
    /\ outcome = "ok" => revs[id].wasProvisionallyInserted
    /\ Commit(revWasHandled(
                 [Begin EXCEPT !.revs[id] =
                      [@ EXCEPT !.state = "returning",
                                !.error = (outcome # "ok"),
                                !.errorIsTransient = (outcome = "transient")]],
                 id))
    /\ UNCHANGED Env

\* The batcher hands the returned revs over: Puller::_revsFinished.
RevsFinished ==
    /\ returningRevs # <<>>
    /\ Commit(revsFinished(Begin))
    /\ UNCHANGED Env

\* The activity level is evaluated: Puller::computeActivityLevel.
ComputeActivityLevel ==
    /\ Commit(computeActivityLevel(Begin))
    /\ UNCHANGED Env

\* The transport loses its connection.
Disconnect ==
    /\ connected
    /\ connected' = FALSE
    /\ Commit(Begin)
    /\ UNCHANGED << pullMode, noIncomingConflicts, subChanges, remote,
                    announced >>

Next ==
    \/ \E sinceSequence \in SinceSequences : Start(sinceSequence)
    \/ \E isError \in BOOLEAN : SubChangesReply(isError)
    \/ \E req \in ChangesMessages : HandleChanges(req)
    \/ \E n \in 1..kChangesBatchSize : \E which \in [1..n -> BOOLEAN] :
           RevFinderCallback(which)
    \/ \E id \in ChangeIDs : HandleRev(id)
    \/ \E id \in ChangeIDs : \E withSequence \in BOOLEAN, noReply \in BOOLEAN :
           HandleNoRev(id, withSequence, noReply)
    \/ \E id \in ChangeIDs : RevWasProvisionallyHandled(id)
    \/ \E id \in ChangeIDs :
           \E outcome \in {"ok", "permanent", "transient"} :
               RevWasHandled(id, outcome)
    \/ RevsFinished
    \/ ComputeActivityLevel
    \/ Disconnect

Spec == Init /\ [][Next]_vars

\* What Puller::_revsFinished does to the batcher's queue: it pops all the
\* queue holds.  No other handler takes anything from the queue.
PopReturningRevs ==
    /\ returningRevs # <<>>
    /\ returningRevs' = <<>>

\* Each Incoming-Rev worker runs on its own mailbox and ends with its final
\* report; the batcher hands what it holds to the Puller's mailbox, whose
\* tasks all get their turn.
Fairness ==
    /\ \A id \in ChangeIDs :
           WF_vars(\E outcome \in {"ok", "permanent", "transient"} :
                      RevWasHandled(id, outcome))
    /\ WF_returningRevs(PopReturningRevs)

FairSpec == OneShotInit /\ [][Next]_vars /\ Fairness

\* An active pull from a remote that may announce a sequence again and
\* whose bodies are of size 0 or 2, with one change and one message less.
RepeatInit ==
    InitWith({"oneShot", "continuous"}, {FALSE},
             [bodySizes |-> {0, 2}, repeats |-> TRUE,
              changes |-> MaxChanges - 1, msgs |-> MaxMsgs - 1])

RepeatSpec == RepeatInit /\ [][Next]_vars

(* ------------------------- the Puller's mailbox ------------------------ *)
(* The Rev-Finder and the transport post their tasks on the Puller's      *)
(* mailbox, which runs them one at a time in the order they were posted.  *)
(* The Rev-Finder finds the revs of a changes message on its own mailbox:  *)
(* it posts the callback and requests the wanted revs, and the remote's    *)
(* rev or norev for a change may arrive before the Puller has run the      *)
(* callback.  The mailbox and the set of changes whose rev is requested    *)
(* and has not arrived are kept with what the remote has sent.             *)

\* The tasks posted on the Puller's mailbox and not yet run.
Mailbox ==
    IF "mailbox" \in DOMAIN announced THEN announced.mailbox ELSE <<>>

\* The changes whose rev the Rev-Finder has requested and whose rev or
\* norev has not arrived.
Sought ==
    IF "sought" \in DOMAIN announced THEN announced.sought ELSE {}

Posted(mailbox, sought) ==
    [seq |-> announced.seq, changes |-> announced.changes,
     msgs |-> announced.msgs, done |-> announced.done,
     mailbox |-> mailbox, sought |-> sought]

\* A pull of any mode from a remote with one change and one message less.
MailboxInit ==
    InitWith(PullModes, {FALSE},
             [bodySizes |-> {2}, repeats |-> FALSE,
              changes |-> MaxChanges - 1, msgs |-> MaxMsgs - 1])

\* The changes of a call that the Rev-Finder wants.
WantedIDs(req, which) ==
    { req.entries[i].id : i \in { j \in DOMAIN which : which[j] } }

\* The Rev-Finder takes the oldest findOrRequestRevs call: it adds the
\* docIDs it wants to the shared set, posts the callback on the Puller's
\* mailbox and requests the revs.
RevFinderFinds(which) ==
    /\ revFinderCalls # <<>>
    /\ DOMAIN which = 1..Len(Head(revFinderCalls).entries)
    /\ LET req == Head(revFinderCalls)
       IN  /\ Commit([Cur EXCEPT !.revFinderCalls = Tail(@),
                                 !.incomingDocIDs =
                                     @ \cup WantedIDs(req, which)])
           /\ announced' =
                Posted(Append(Mailbox, [task |-> "callback", req |-> req,
                                        which |-> which]),
                       Sought \cup WantedIDs(req, which))
    /\ UNCHANGED << pullMode, noIncomingConflicts, connected, subChanges,
                    remote >>

\* The rev or the norev of a requested change arrives and its handler is
\* posted on the Puller's mailbox.
Arrives(id, task, withSequence, noReply) ==
    /\ connected
    /\ id \in Sought
    /\ Commit(Cur)
    /\ announced' =
         Posted(Append(Mailbox, [task |-> task, id |-> id,
                                 withSequence |-> withSequence,
                                 noReply |-> noReply]),
                Sought \ {id})
    /\ UNCHANGED << pullMode, noIncomingConflicts, connected, subChanges,
                    remote >>

\* The Puller runs the task at the head of its mailbox: the callback of a
\* findOrRequestRevs call.
RunCallback ==
    /\ Mailbox # <<>>
    /\ Head(Mailbox).task = "callback"
    /\ Commit(revFinderCallback(Begin, Head(Mailbox).req,
                                Head(Mailbox).which))
    /\ announced' = Posted(Tail(Mailbox), Sought)
    /\ UNCHANGED << pullMode, noIncomingConflicts, connected, subChanges,
                    remote >>

\* The Puller runs the task at the head of its mailbox: Puller::handleRev.
RunRev ==
    /\ Mailbox # <<>>
    /\ Head(Mailbox).task = "rev"
    /\ Commit(handleRev(Begin, Head(Mailbox).id))
    /\ announced' = Posted(Tail(Mailbox), Sought)
    /\ UNCHANGED << pullMode, noIncomingConflicts, connected, subChanges,
                    remote >>

\* The Puller runs the task at the head of its mailbox: Puller::handleNoRev.
RunNoRev ==
    /\ Mailbox # <<>>
    /\ Head(Mailbox).task = "norev"
    /\ LET t == Head(Mailbox)
       IN  Commit(handleNoRev(Begin, t.id,
                              IF t.withSequence THEN revs[t.id].seq
                                                ELSE NoSeq,
                              t.noReply))
    /\ announced' = Posted(Tail(Mailbox), Sought)
    /\ UNCHANGED << pullMode, noIncomingConflicts, connected, subChanges,
                    remote >>

MailboxNext ==
    \/ \E sinceSequence \in SinceSequences : Start(sinceSequence)
    \/ \E isError \in BOOLEAN : SubChangesReply(isError)
    \/ \E req \in ChangesMessages : HandleChanges(req)
    \/ \E n \in 1..kChangesBatchSize : \E which \in [1..n -> BOOLEAN] :
           RevFinderFinds(which)
    \/ \E id \in ChangeIDs : \E task \in {"rev", "norev"} :
           \E withSequence \in BOOLEAN, noReply \in BOOLEAN :
               Arrives(id, task, withSequence, noReply)
    \/ RunCallback
    \/ RunRev
    \/ RunNoRev
    \/ \E id \in ChangeIDs : RevWasProvisionallyHandled(id)
    \/ \E id \in ChangeIDs :
           \E outcome \in {"ok", "permanent", "transient"} :
               RevWasHandled(id, outcome)
    \/ RevsFinished
    \/ ComputeActivityLevel
    \/ Disconnect

MailboxSpec == MailboxInit /\ [][MailboxNext]_vars

(* ------------------- the missing-sequence set alone -------------------- *)
(* The set under every sequence of its operations a feed can cause: the   *)
(* remote's sequences come in its order, after the base, and a sequence   *)
(* that is in the set may be announced again.                             *)

\* The body sizes the set is given: 0 for a change that is not wanted, at
\* least 1 for one that is.
SetBodySizes == 0..2

\* The Puller after construction; the set is in use once it is cleared.
SetInit ==
    InitWith({"oneShot"}, {FALSE},
             [bodySizes |-> {2}, repeats |-> TRUE,
              changes |-> MaxChanges, msgs |-> MaxMsgs])

SetCleared == "watermark" \in DOMAIN missingSequences

SetOthers ==
    << pullMode, noIncomingConflicts, connected, subChanges, lastSequence,
       caughtUp, skipDeleted, fatalError, waitingChangesMessages,
       waitingRevMessages, pendingRevMessages, activeIncomingRevs,
       unfinishedIncomingRevs, pendingRevFinderCalls, spareIncomingRevs,
       incomingDocIDs, returningRevs, progress, revFinderCalls, revs,
       finishedDocs, out, remote, announced >>

\* _missingSequences.clear(sinceSequence)
SetClear(b) ==
    /\ missingSequences' = ruleClear(b)
    /\ UNCHANGED SetOthers

\* _missingSequences.add(sequence, bodySize)
SetAdd(s, bodySize) ==
    /\ SetCleared
    /\ \/ s > MaxOf({missingSequences.base} \cup missingSequences.added)
       \/ s \in DOMAIN missingSequences.members
    /\ missingSequences' = msAdd(missingSequences, s, bodySize)
    /\ UNCHANGED SetOthers

\* _missingSequences.remove(sequence, wasEarliest, bodySize)
SetRemove(s) ==
    /\ SetCleared
    /\ missingSequences' = ruleRemove(missingSequences, s)
    /\ UNCHANGED SetOthers

SetNext ==
    \/ \E b \in {NoSeq} \cup SinceSequences : SetClear(b)
    \/ \E s \in Seqs, bodySize \in SetBodySizes : SetAdd(s, bodySize)
    \/ \E s \in Seqs : SetRemove(s)

SetSpec == SetInit /\ [][SetNext]_vars

(* ------------------------------ properties ----------------------------- *)

\* The checkpoints the latest handler passed to updatePullCheckpoint.
Passed == { out.checkpoints[i] : i \in DOMAIN out.checkpoints }

\* C1: in an active pull the checkpoint (lastSequence, and every value
\* passed to updatePullCheckpoint, at the time of the call) is never greater
\* than the least sequence still in the missing-sequence set.
C1_CheckpointNotPastMissing ==
    nonPassive =>
        /\ DOMAIN missingSequences.members # {} =>
               lastSequence <= msEarliest(missingSequences)
        /\ \A c \in Passed : c.earliest # NoSeq => c.seq <= c.earliest

\* A checkpoint was passed on while a later sequence was still missing.
C1_Witness ==
    /\ nonPassive
    /\ \E c \in Passed : c.earliest # NoSeq
    /\ DOMAIN missingSequences.members # {}

\* C2: after start the checkpoint never decreases: every value assigned to
\* lastSequence and passed to updatePullCheckpoint is at least the one
\* before it.
C2_CheckpointMonotone ==
    [][ /\ lastSequence' >= lastSequence
        /\ \A i \in DOMAIN out'.checkpoints :
               out'.checkpoints[i].seq >=
                   (IF i = 1 THEN lastSequence
                    ELSE out'.checkpoints[i - 1].seq) ]_vars

\* A final-completion batch has taken the checkpoint over two sequences
\* and more, while a later sequence is still missing.
C2_Witness ==
    /\ nonPassive
    /\ out.notified # <<>>
    /\ out.checkpoints # <<>>
    /\ lastSequence >= 3
    /\ DOMAIN missingSequences.members # {}

\* The revs the latest handler (a final-completion batch) gave to
\* finishedDocument with a transient error.
TransientNotified ==
    { out.notified[i].id : i \in DOMAIN out.notified } \cap
    { id \in ChangeIDs : revs[id].errorIsTransient }

\* C3: when a worker's final report has a transient error in an active
\* pull, its sequence stays in the missing-sequence set, the checkpoint is
\* below that sequence, and the completed progress has grown by at least
\* the body size recorded for the sequence.
C3_TransientKeepsSequence ==
    [][ nonPassive =>
          \A id \in TransientNotified' :
             revs[id].seq \in DOMAIN missingSequences.members =>
                /\ revs[id].seq \in DOMAIN missingSequences'.members
                /\ lastSequence' < revs[id].seq
                /\ progress'.completed >=
                       progress.completed
                       + missingSequences.members[revs[id].seq] ]_vars

\* A final-completion batch has finished one rev with a transient error,
\* whose sequence is still missing, and has advanced the checkpoint for
\* another rev.
C3_Witness ==
    /\ nonPassive
    /\ out.checkpoints # <<>>
    /\ \E id \in TransientNotified :
          /\ revs[id].seq \in DOMAIN missingSequences.members
          /\ lastSequence < revs[id].seq
          /\ progress.completed >= 2

\* C4: the checkpoint changes only in a step that removes the earliest
\* sequence of the missing-sequence set.
C4_AdvanceOnlyOnEarliest ==
    [][ /\ out'.checkpoints # <<>> => out'.removedEarliest
        /\ (subChanges # "none" /\ lastSequence' # lastSequence) =>
               out'.removedEarliest ]_vars

\* A rev has completed, without transient error, while an earlier sequence
\* is still missing, and the step has left the checkpoint alone, below the
\* earlier sequence.
C4_Witness ==
    /\ nonPassive
    /\ out.checkpoints = <<>>
    /\ \E i \in DOMAIN out.notified :
          LET seq == revs[out.notified[i].id].seq
          IN  /\ ~revs[out.notified[i].id].errorIsTransient
              /\ seq \notin DOMAIN missingSequences.members
              /\ \E m \in DOMAIN missingSequences.members :
                     m < seq /\ lastSequence < m

\* C5 as stated: pendingRevMessages never exceeds MaxPendingRevs.
C5_PendingWithinCap ==
    /\ pendingRevMessages <= MaxPendingRevs
    /\ out.peak.pending <= MaxPendingRevs

\* C5 as amended: a changes message is handed to the Rev-Finder only by a
\* handler that leaves pendingRevMessages below MaxPendingRevs (the counter
\* is tested before the message is taken from the queue, and grows only
\* later, in the Rev-Finder's callback).
C5_DispatchBelowCap ==
    [][ pendingRevFinderCalls' > pendingRevFinderCalls =>
            pendingRevMessages' < MaxPendingRevs ]_vars

\* A changes message is with the Rev-Finder while pendingRevMessages stands
\* just below the cap.
C5_Witness ==
    /\ pendingRevFinderCalls > 0
    /\ pendingRevMessages = MaxPendingRevs - 1

\* C6: activeIncomingRevs never exceeds MaxActiveIncomingRevs, at the end of
\* a handler or while it runs.
C6_ActiveWithinCap ==
    /\ activeIncomingRevs <= MaxActiveIncomingRevs
    /\ out.peak.active <= MaxActiveIncomingRevs

\* The cap is reached and a rev message is held back.
C6_Witness ==
    /\ activeIncomingRevs = MaxActiveIncomingRevs
    /\ waitingRevMessages # <<>>

\* C7: unfinishedIncomingRevs never exceeds MaxUnfinishedIncomingRevs, at
\* the end of a handler or while it runs (a final-completion batch takes the
\* batch off the counter only after its loop).
C7_UnfinishedWithinCap ==
    /\ unfinishedIncomingRevs <= MaxUnfinishedIncomingRevs
    /\ out.peak.unfinished <= MaxUnfinishedIncomingRevs

\* A final-completion batch has started a waiting rev, which took the
\* counter to its cap before the batch was taken off.
C7_Witness ==
    /\ out.notified # <<>>
    /\ out.peak.unfinished = MaxUnfinishedIncomingRevs
    /\ unfinishedIncomingRevs < out.peak.unfinished
    /\ activeIncomingRevs > 0

\* C8: once fatalError is set it stays set, and the activity level is
\* Stopped from then on, whatever the counters, caughtUp and the mode are.
C8_FatalErrorSticky ==
    [][ /\ fatalError => fatalError'
        /\ fatalError' => activityLevel(Cur)' = kC4Stopped ]_vars

\* The error is set in a continuous pull that is connected, with revs
\* pending and unfinished.
C8_Witness ==
    /\ fatalError
    /\ connected
    /\ pullMode = "continuous"
    /\ pendingRevMessages > 0
    /\ unfinishedIncomingRevs > 0

\* C9: every rev started on an Incoming-Rev worker leads to its final
\* completion being processed by the Puller, with finishedDocument called
\* for it exactly once: the call comes, with the step that completes the
\* rev and with no other, and never a second time.
C9_StartedRevFinishesOnce ==
    \A id \in ChangeIDs :
        /\ (revs[id].state = "active") ~> (finishedDocs[id] = 1)
        /\ [](finishedDocs[id] <= 1)
        /\ [](finishedDocs[id] = 1 <=> revs[id].state = "finished")

\* Two revs are finished, the later one by a worker that came from the
\* spare pool.
C9_Witness ==
    \E id \in ChangeIDs :
        /\ revs[id].state = "finished"
        /\ revs[id].reused
        /\ finishedDocs[id] = 1
        /\ \E other \in ChangeIDs \ {id} : finishedDocs[other] = 1

\* A one-shot pull whose remote has sent all it had to, the empty batch
\* last, while neither the Rev-Finder nor a worker nor the batcher has
\* anything left for the Puller.
Drained ==
    /\ pullMode = "oneShot"
    /\ connected
    /\ ~fatalError
    /\ subChanges = "ok"
    /\ announced.done
    /\ revFinderCalls = <<>>
    /\ returningRevs = <<>>
    /\ \A id \in ChangeIDs :
           revs[id].state \notin {"requested", "active", "returning"}

Quiescent ==
    /\ waitingChangesMessages = <<>>
    /\ waitingRevMessages = <<>>
    /\ pendingRevMessages = 0
    /\ activeIncomingRevs = 0
    /\ unfinishedIncomingRevs = 0
    /\ pendingRevFinderCalls = 0
    /\ activityLevel(Cur) = kC4Stopped

\* C10: in a one-shot pull, once the remote's feed has ended with the empty
\* batch, every wanted change has had its rev or norev and every worker has
\* reported, the Puller is quiescent: queues empty, counters zero, the
\* level Stopped.
C10_DrainedIsQuiescent == Drained => Quiescent

\* All counters zero and both queues empty.
CountersZero ==
    /\ waitingChangesMessages = <<>>
    /\ waitingRevMessages = <<>>
    /\ pendingRevMessages = 0
    /\ activeIncomingRevs = 0
    /\ unfinishedIncomingRevs = 0
    /\ pendingRevFinderCalls = 0

\* The sequences of the revs whose worker reported a transient error.
TransientSequences ==
    { revs[id].seq : id \in { i \in ChangeIDs :
                                 /\ revs[i].state = "finished"
                                 /\ revs[i].errorIsTransient } }

\* The sequences of the revs refused by a norev that named no sequence.
UnnamedNoRevSequences ==
    { revs[id].seq : id \in { i \in ChangeIDs :
                                 revs[i].state = "norevNoSequence" } }

\* C11 as stated: at quiescence of an active pull the only sequences still
\* in the missing-sequence set are those whose worker reported a transient
\* error.
C11_OnlyTransientRemain ==
    (nonPassive /\ CountersZero) =>
        DOMAIN missingSequences.members \subseteq TransientSequences

\* C11 as amended: in an active pull the sequence of a started rev is out of
\* the missing-sequence set once its final completion is processed, unless
\* the error was transient, and so is the sequence a norev names; at
\* quiescence the only sequences still in the set are those of a transient
\* error and those of a norev that named no sequence.
C11_RemovedUnlessTransientOrUnnamed ==
    /\ \A id \in ChangeIDs :
          (nonPassive /\ revs[id].state = "active") ~>
              (/\ revs[id].state = "finished"
               /\ (revs[id].errorIsTransient
                   \/ revs[id].seq \notin DOMAIN missingSequences.members))
    /\ [](nonPassive =>
            /\ \A id \in ChangeIDs :
                  revs[id].state = "norev" =>
                      revs[id].seq \notin DOMAIN missingSequences.members
            /\ CountersZero =>
                  DOMAIN missingSequences.members \subseteq
                      (TransientSequences \cup UnnamedNoRevSequences))

\* Quiescence with one rev done and its sequence removed, and the sequence
\* of a rev that failed transiently still in the set.
C11_Witness ==
    /\ nonPassive
    /\ CountersZero
    /\ \E id \in ChangeIDs :
          /\ revs[id].state = "finished"
          /\ ~revs[id].errorIsTransient
          /\ revs[id].seq \notin DOMAIN missingSequences.members
    /\ \E id \in ChangeIDs :
          /\ revs[id].state = "finished"
          /\ revs[id].errorIsTransient
          /\ revs[id].seq \in DOMAIN missingSequences.members

\* The ordered table of the activity level, row by row.
LevelOfTable ==
    CASE fatalError \/ ~connected -> kC4Stopped
      [] ~(fatalError \/ ~connected)
         /\ (\/ baseWorkerBusy
             \/ (~caughtUp /\ pullMode \in {"oneShot", "continuous"})
             \/ pendingRevMessages > 0
             \/ unfinishedIncomingRevs > 0
             \/ pendingRevFinderCalls > 0) -> kC4Busy
      [] OTHER -> IF pullMode = "continuous"
                     \/ (pullMode = "passive" /\ connected)
                  THEN kC4Idle
                  ELSE kC4Stopped

\* C12: computeActivityLevel returns exactly the value of the ordered table:
\* Stopped if fatalError or no connection; else Busy if the base worker is
\* busy, or the pull is active and not caught up, or one of
\* pendingRevMessages, unfinishedIncomingRevs, pendingRevFinderCalls is
\* positive; else Idle if continuous or serving as passive endpoint; else
\* Stopped.
C12_LevelIsTable == activityLevel(Cur) = LevelOfTable

\* Busy only because a Rev-Finder call is outstanding.
C12_Witness ==
    /\ activityLevel(Cur) = kC4Busy
    /\ pendingRevFinderCalls > 0
    /\ pendingRevMessages = 0
    /\ unfinishedIncomingRevs = 0
    /\ ~baseWorkerBusy
    /\ (caughtUp \/ ~nonPassive)

\* A changes message without entries, its body of the given kind.
BodyOnly(profile, kind) ==
    [profile |-> profile, kind |-> kind, noReply |-> FALSE, entries |-> <<>>]

\* The Puller handles an arriving changes message at once: nothing waits
\* and pendingRevMessages is below its cap.
NotThrottled ==
    /\ waitingChangesMessages = <<>>
    /\ pendingRevMessages < MaxPendingRevs

\* The step leaves the checkpoint, the missing-sequence set, the counters,
\* the queues and the calls to the Rev-Finder as they are.
PipelineUnchanged ==
    UNCHANGED << lastSequence, missingSequences, pendingRevMessages,
                 pendingRevFinderCalls, activeIncomingRevs,
                 unfinishedIncomingRevs, revFinderCalls,
                 waitingChangesMessages, waitingRevMessages,
                 spareIncomingRevs, incomingDocIDs, returningRevs,
                 progress, revs, fatalError >>

\* C13: handling a changes or proposeChanges message whose body is the empty
\* array sets caughtUp, clears skipDeleted and sends an empty reply, and
\* leaves the checkpoint, the missing-sequence set and the counters as they
\* are, with no call to the Rev-Finder, in conflict-free mode too.
C13_EmptyBatchFrame ==
    [][ \A profile \in {"changes", "proposeChanges"} :
          (NotThrottled /\ HandleChanges(BodyOnly(profile, "empty"))) =>
              /\ caughtUp'
              /\ ~skipDeleted'
              /\ out'.replies = << [to |-> profile, code |-> "ok"] >>
              /\ out'.checkpoints = <<>>
              /\ PipelineUnchanged ]_vars

\* The empty batch has been handled in conflict-free mode, under the
\* changes profile, while revs are awaited.
C13_Witness ==
    /\ noIncomingConflicts
    /\ caughtUp
    /\ ~skipDeleted
    /\ out.replies = << [to |-> "changes", code |-> "ok"] >>
    /\ pendingRevMessages > 0

\* What C14 says of the step that handles the non-empty message req in
\* conflict-free mode: refused with 409 and nothing else under the changes
\* profile, handed to the Rev-Finder under proposeChanges.
ConflictFreeEffect(req) ==
    IF req.profile = "changes"
    THEN /\ out'.replies = << [to |-> "changes", code |-> "409"] >>
         /\ out'.checkpoints = <<>>
         /\ PipelineUnchanged
         /\ UNCHANGED << caughtUp, skipDeleted >>
    ELSE /\ out'.replies = <<>>
         /\ revFinderCalls' = Append(revFinderCalls, req)
         /\ pendingRevFinderCalls' = pendingRevFinderCalls + 1
         /\ UNCHANGED << missingSequences, lastSequence, pendingRevMessages >>

\* C14 as stated: in conflict-free mode every non-empty message is refused
\* with 409 under the changes profile and handed to the Rev-Finder under
\* proposeChanges.
C14_ConflictFreeRefusal ==
    [][ \A req \in ChangesMessages :
          (/\ noIncomingConflicts
           /\ req.kind = "array"
           /\ NotThrottled
           /\ HandleChanges(req)) => ConflictFreeEffect(req) ]_vars

\* C14 as amended: that holds of the non-empty messages that expect a reply;
\* one marked no-reply is dropped under either profile, with no reply, no
\* call to the Rev-Finder and no other change.
C14_ConflictFreeRefusalIfReply ==
    [][ \A req \in ChangesMessages :
          (/\ noIncomingConflicts
           /\ req.kind = "array"
           /\ NotThrottled
           /\ HandleChanges(req)) =>
              IF req.noReply
              THEN /\ out'.replies = <<>>
                   /\ out'.checkpoints = <<>>
                   /\ PipelineUnchanged
                   /\ UNCHANGED << caughtUp, skipDeleted >>
              ELSE ConflictFreeEffect(req) ]_vars

\* A message under the changes profile has been refused with 409 while a
\* call of the Rev-Finder, for one under proposeChanges, is outstanding.
C14_Witness ==
    /\ noIncomingConflicts
    /\ out.replies = << [to |-> "changes", code |-> "409"] >>
    /\ pendingRevFinderCalls > 0
    /\ \E i \in DOMAIN revFinderCalls :
           revFinderCalls[i].profile = "proposeChanges"

\* The step answers the message with error 400 and does nothing else.
RefusedAsInvalid(profile) ==
    /\ out'.replies = << [to |-> profile, code |-> "400"] >>
    /\ out'.checkpoints = <<>>
    /\ PipelineUnchanged
    /\ UNCHANGED << caughtUp, skipDeleted >>

\* C15 as stated: a changes message whose body is no JSON array, the body
\* null included, is answered with error 400 and is no caught-up signal.
C15_NonArrayRefused ==
    [][ \A profile \in {"changes", "proposeChanges"} :
          \A kind \in {"invalid", "null"} :
             (NotThrottled /\ HandleChanges(BodyOnly(profile, kind))) =>
                 RefusedAsInvalid(profile) ]_vars

\* C15 as amended: a body that is no JSON array and is not null is answered
\* with error 400 and changes nothing; the body null is handled as the
\* empty array is: caughtUp set, skipDeleted cleared, an empty reply.
C15_NonArrayRefusedButNull ==
    [][ \A profile \in {"changes", "proposeChanges"} :
          /\ (NotThrottled /\ HandleChanges(BodyOnly(profile, "invalid"))) =>
                 RefusedAsInvalid(profile)
          /\ (NotThrottled /\ HandleChanges(BodyOnly(profile, "null"))) =>
                 /\ caughtUp'
                 /\ ~skipDeleted'
                 /\ out'.replies = << [to |-> profile, code |-> "ok"] >>
                 /\ out'.checkpoints = <<>>
                 /\ PipelineUnchanged ]_vars

\* A malformed body has been refused with 400 in an active pull that is not
\* caught up and awaits revs.
C15_Witness ==
    /\ nonPassive
    /\ out.replies = << [to |-> "changes", code |-> "400"] >>
    /\ ~caughtUp
    /\ skipDeleted
    /\ pendingRevMessages > 0

\* The changes pump has run: no message waits while pendingRevMessages is
\* below its cap.
ChangesPumpDone(waiting, pending) ==
    ~(waiting # <<>> /\ pending < MaxPendingRevs)

\* C16: handling a norev with id and sequence takes exactly one off
\* pendingRevMessages, exactly that docID out of the incoming-docID set and
\* exactly that sequence out of the missing-sequence set, runs the changes
\* pump, and replies if and only if the message is not marked no-reply.
C16_NoRevFrame ==
    [][ \A id \in ChangeIDs : \A noReply \in BOOLEAN :
          HandleNoRev(id, TRUE, noReply) =>
             LET seq == revs[id].seq
                 before == DOMAIN missingSequences.members
             IN  /\ pendingRevMessages' = pendingRevMessages - 1
                 /\ incomingDocIDs' = incomingDocIDs \ {id}
                 /\ DOMAIN missingSequences'.members = before \ {seq}
                 /\ \A x \in before \ {seq} :
                       missingSequences'.members[x] =
                           missingSequences.members[x]
                 /\ ChangesPumpDone(waitingChangesMessages',
                                    pendingRevMessages')
                 /\ ([to |-> "norev", code |-> "ok"] \in
                        { out'.replies[i] : i \in DOMAIN out'.replies })
                    <=> ~noReply ]_vars

\* A norev has taken one of two awaited revs and its sequence away, and the
\* pump has handed a waiting changes message to the Rev-Finder.
C16_Witness ==
    /\ nonPassive
    /\ \E id \in ChangeIDs :
          /\ revs[id].state = "norev"
          /\ id \notin incomingDocIDs
          /\ revs[id].seq \notin DOMAIN missingSequences.members
    /\ out.replies = << [to |-> "norev", code |-> "ok"] >>
    /\ incomingDocIDs # {}
    /\ DOMAIN missingSequences.members # {}
    /\ pendingRevMessages = MaxPendingRevs - 1
    /\ pendingRevFinderCalls > 0

\* The revs of the batch the batcher holds that failed for good.
PermanentlyFailed ==
    { id \in ChangeIDs :
        /\ \E i \in DOMAIN returningRevs : returningRevs[i] = id
        /\ revs[id].error
        /\ ~revs[id].errorIsTransient }

\* C17: a final report with a permanent error does to the missing-sequence
\* set and the checkpoint what a successful one does: the sequence is
\* removed, the checkpoint advances if it was the earliest, and the set and
\* the checkpoint end as they would had the rev succeeded; finishedDocument
\* is still called, with the error.
C17_PermanentErrorCompletes ==
    [][ RevsFinished =>
          \A id \in PermanentlyFailed :
             LET seq == revs[id].seq
                 ok == revsFinished([Begin EXCEPT !.revs[id].error = FALSE])
             IN  /\ [id |-> id, error |-> TRUE] \in
                        { out'.notified[i] : i \in DOMAIN out'.notified }
                 /\ finishedDocs'[id] = finishedDocs[id] + 1
                 /\ nonPassive =>
                       /\ seq \notin DOMAIN missingSequences'.members
                       /\ (/\ seq \in DOMAIN missingSequences.members
                           /\ seq = MinOf(DOMAIN missingSequences.members)) =>
                              /\ lastSequence' >= seq
                              /\ out'.checkpoints # <<>>
                       /\ missingSequences' = ok.missingSequences
                       /\ lastSequence' = ok.lastSequence
                       /\ out'.checkpoints = ok.out.checkpoints ]_vars

\* A rev that failed for good has been finished: its sequence, the earliest
\* one, is out of the set and the checkpoint has advanced.
C17_Witness ==
    /\ nonPassive
    /\ out.checkpoints # <<>>
    /\ \E i \in DOMAIN out.notified :
          /\ out.notified[i].error
          /\ ~revs[out.notified[i].id].errorIsTransient
          /\ revs[out.notified[i].id].seq \notin
                 DOMAIN missingSequences.members
          /\ lastSequence >= revs[out.notified[i].id].seq

\* The number of wanted entries of an answer of the Rev-Finder.
Wanted(which) == Cardinality({ i \in DOMAIN which : which[i] })

\* The length of the longest prefix of the answer without a wanted entry.
UnwantedPrefix(which) ==
    MaxOf({0} \cup { j \in DOMAIN which : \A i \in 1..j : ~which[i] })

\* C18: in an active pull each entry the Rev-Finder marks not wanted is
\* added with body size 0 and completed in the same step, and is not counted
\* in pendingRevMessages; the checkpoint advances across the not-wanted
\* entries that are a prefix of the missing-sequence set and stops before
\* the first sequence that is wanted and not complete.
C18_UnwantedCompletedAtOnce ==
    [][ \A n \in 1..kChangesBatchSize : \A which \in [1..n -> BOOLEAN] :
          (nonPassive /\ RevFinderCallback(which)) =>
             LET entries == Head(revFinderCalls).entries
                 k == UnwantedPrefix(which)
                 clear == DOMAIN missingSequences.members = {}
             IN  /\ \A i \in 1..n :
                       /\ entries[i].seq \in missingSequences'.added
                       /\ entries[i].seq \in DOMAIN missingSequences'.members
                             <=> which[i]
                       /\ which[i] =>
                             missingSequences'.members[entries[i].seq] > 0
                 /\ pendingRevMessages' = pendingRevMessages + Wanted(which)
                 /\ progress'.completed = progress.completed
                 /\ lastSequence' = IF clear /\ k > 0
                                    THEN entries[k].seq
                                    ELSE lastSequence
                 /\ \A i \in 1..n : which[i] => lastSequence' < entries[i].seq
                 /\ out'.checkpoints # <<>> <=> (clear /\ k > 0) ]_vars

\* The Rev-Finder has answered a batch whose first entry is not wanted and
\* whose second is: the checkpoint stands at the first, below the second,
\* which is awaited.
C18_Witness ==
    /\ nonPassive
    /\ out.checkpoints # <<>>
    /\ \E a \in ChangeIDs : \E b \in ChangeIDs :
          /\ revs[a].state = "unwanted"
          /\ revs[b].state = "requested"
          /\ lastSequence < revs[b].seq
          /\ revs[b].seq \in DOMAIN missingSequences.members
          /\ lastSequence + 1 = revs[b].seq
    /\ pendingRevMessages > 0

\* C19: the spare pool of Incoming-Rev workers never holds more than
\* MaxActiveIncomingRevs workers: a final-completion batch returns workers
\* up to the capacity left and drops the rest.
C19_SparePoolWithinCap == spareIncomingRevs <= MaxActiveIncomingRevs

\* A final-completion batch of two workers has filled the pool and dropped
\* a worker.
C19_Witness ==
    /\ Len(out.notified) > MaxActiveIncomingRevs
    /\ spareIncomingRevs = MaxActiveIncomingRevs

\* C20: in an active pull, at the end of every step after the start the
\* cached checkpoint lastSequence equals since() of the missing-sequence
\* set, and updatePullCheckpoint is called exactly when the value has
\* changed, with the new value: each call differs from the value before it
\* and the last call carries the value the step ends with.
C20_CheckpointIsSince ==
    [][ (nonPassive /\ subChanges # "none") =>
          LET calls == out'.checkpoints
          IN  /\ lastSequence' = msSince(missingSequences')
              /\ calls # <<>> <=> lastSequence' # lastSequence
              /\ calls # <<>> => calls[Len(calls)].seq = lastSequence'
              /\ \A i \in DOMAIN calls :
                    calls[i].seq # (IF i = 1 THEN lastSequence
                                    ELSE calls[i - 1].seq) ]_vars

\* A final-completion batch has moved since() and the checkpoint with it,
\* in one call of updatePullCheckpoint.
C20_Witness ==
    /\ nonPassive
    /\ out.notified # <<>>
    /\ Len(out.checkpoints) = 1
    /\ out.checkpoints[1].seq = lastSequence
    /\ lastSequence = msSince(missingSequences)
    /\ lastSequence > 1


(* ---------------- properties of the missing-sequence set --------------- *)

Removed(ms) == ms.added \ DOMAIN ms.members

SeqsOf(entries) == { entries[i].seq : i \in DOMAIN entries }

\* The changes other than id that were announced with the sequence of id
\* and whose rev is still awaited or being inserted.
TwinsAtWork(id) ==
    { other \in ChangeIDs \ {id} :
        /\ revs[other].seq = revs[id].seq
        /\ revs[other].state \in {"requested", "waiting", "active"} }

\* C23: adding a sequence that is already in the missing-sequence set is
\* idempotent.  A Rev-Finder callback all of whose changes are wanted leaves
\* every member with its body size and adds the new sequences only; when
\* their sequences are all in the set already, the set, and with it size()
\* and since(), is as before.  So a single completion removes a sequence
\* that was announced twice: after a final-completion batch no sequence of
\* a rev that finished without transient error is in the set.
C23_AddIsIdempotent ==
    [][ /\ \A n \in 1..kChangesBatchSize : \A which \in [1..n -> {TRUE}] :
              (nonPassive /\ RevFinderCallback(which)) =>
                  LET es == Head(revFinderCalls).entries
                      old == missingSequences
                      new == missingSequences'
                  IN  /\ DOMAIN new.members = DOMAIN old.members \cup SeqsOf(es)
                      /\ \A s \in DOMAIN old.members :
                             new.members[s] = old.members[s]
                      /\ SeqsOf(es) \subseteq DOMAIN old.members =>
                             /\ new = old
                             /\ msSize(new) = msSize(old)
                             /\ msSince(new) = msSince(old)
        /\ (nonPassive /\ RevsFinished) =>
              \A i \in DOMAIN out'.notified :
                  LET id == out'.notified[i].id
                  IN  ~revs'[id].errorIsTransient =>
                          revs'[id].seq \notin DOMAIN missingSequences'.members
      ]_vars

\* A sequence was announced twice, both changes wanted; the rev of one has
\* finished and the sequence is out of the set while the other rev is
\* still to come.
C23_Witness ==
    /\ nonPassive
    /\ out.notified # <<>>
    /\ \E i \in DOMAIN out.notified :
           LET id == out.notified[i].id
           IN  /\ ~revs[id].errorIsTransient
               /\ TwinsAtWork(id) # {}
               /\ revs[id].seq \notin DOMAIN missingSequences.members


(* ----------------------- properties of the pumps ------------------------ *)

\* The rev pump has run: no rev waits while both counters are below their
\* caps.
RevPumpDone(waiting, active, unfinished) ==
    ~(/\ waiting # <<>>
      /\ active < MaxActiveIncomingRevs
      /\ unfinished < MaxUnfinishedIncomingRevs)

\* A norev, a provisional-insertion report or a final-completion batch is
\* handled.
TerminalEvent ==
    \/ \E id \in ChangeIDs : \E withSequence \in BOOLEAN, noReply \in BOOLEAN :
           HandleNoRev(id, withSequence, noReply)
    \/ \E id \in ChangeIDs : RevWasProvisionallyHandled(id)
    \/ RevsFinished

\* C24: after each terminal event both pumps have run: at the end of the
\* step no message is left in waitingChangesMessages while
\* pendingRevMessages is below MaxPendingRevs, and none in
\* waitingRevMessages while activeIncomingRevs and unfinishedIncomingRevs
\* are both below their caps.
C24_PumpsRunAfterTerminalEvent ==
    [][ TerminalEvent =>
          /\ ChangesPumpDone(waitingChangesMessages', pendingRevMessages')
          /\ RevPumpDone(waitingRevMessages', activeIncomingRevs',
                         unfinishedIncomingRevs') ]_vars


\* After each terminal event the changes pump has run.
ChangesPumpRunsAfterTerminalEvent ==
    [][ TerminalEvent =>
          ChangesPumpDone(waitingChangesMessages', pendingRevMessages') ]_vars


\* A pull from a remote with one change more and one message less, all of
\* whose changes are of interest.
LongFeedInit ==
    InitWith({"continuous"}, {FALSE},
             [bodySizes |-> {2}, repeats |-> FALSE,
              changes |-> MaxChanges + 1, msgs |-> MaxMsgs - 1])

LongFeedSpec == LongFeedInit /\ [][Next]_vars


\* The revs a step has started on a worker.
StartedNow == { id \in ChangeIDs : revs[id].state # "active"
                                   /\ revs'[id].state = "active" }

\* The place of a rev in a queue, 0 when it is not there.
PlaceIn(queue, id) ==
    IF \E i \in DOMAIN queue : queue[i] = id
    THEN CHOOSE i \in DOMAIN queue : queue[i] = id
    ELSE 0

\* C25: rev messages are started in arrival order: no step starts a rev
\* while a rev that arrived before it is left in waitingRevMessages.  A rev
\* taken from the queue leaves only revs behind it there; a rev that has
\* just arrived leaves none of the revs that were queued.
C25_RevsStartInArrivalOrder ==
    [][ \A id \in StartedNow :
          \A i \in DOMAIN waitingRevMessages :
              LET held == waitingRevMessages[i]
              IN  PlaceIn(waitingRevMessages', held) # 0 =>
                      /\ PlaceIn(waitingRevMessages, id) # 0
                      /\ PlaceIn(waitingRevMessages, id) < i ]_vars


(* ------------------- properties of the activity level ------------------ *)

\* The step leaves the Puller's fields other than the spare pool as they
\* are.
StateButSparePoolUnchanged ==
    UNCHANGED << lastSequence, missingSequences, caughtUp, skipDeleted,
                 fatalError, waitingChangesMessages, waitingRevMessages,
                 pendingRevMessages, activeIncomingRevs,
                 unfinishedIncomingRevs, pendingRevFinderCalls,
                 incomingDocIDs, returningRevs, progress, revFinderCalls,
                 revs, finishedDocs >>

\* C26 as stated: evaluating computeActivityLevel changes no Puller state,
\* the spare pool included.
C26_LevelIsPure ==
    [][ ComputeActivityLevel =>
          /\ StateButSparePoolUnchanged
          /\ UNCHANGED spareIncomingRevs ]_vars

\* C26: evaluating computeActivityLevel changes no Puller state but the
\* spare pool, which it empties when the level is Idle and leaves as it is
\* otherwise; a second evaluation with no event in between returns the same
\* level and leaves the state of the first.
C26_LevelChangesSparePoolOnly ==
    [][ ComputeActivityLevel =>
          /\ StateButSparePoolUnchanged
          /\ spareIncomingRevs' = IF activityLevel(Cur) = kC4Idle
                                  THEN 0
                                  ELSE spareIncomingRevs
          /\ activityLevel(Cur)' = activityLevel(Cur)
          /\ computeActivityLevel(Cur)'.spareIncomingRevs
                 = spareIncomingRevs' ]_vars

\* The level is Idle and the spare pool empty although workers have
\* finished and none was taken from the pool: the evaluation of the level
\* has emptied it.
C26_Witness ==
    /\ activityLevel(Cur) = kC4Idle
    /\ spareIncomingRevs = 0
    /\ out.notified = <<>>
    /\ \E id \in ChangeIDs : revs[id].state = "finished"
    /\ \A id \in ChangeIDs : ~revs[id].reused


(* ------------------------ properties of progress ----------------------- *)

\* Every change the remote has announced has finished: no changes message
\* waits, no Rev-Finder call is outstanding, and every change was not
\* wanted, was refused with a norev or has been through a worker and its
\* final-completion batch.
AllChangesFinished ==
    /\ announced.changes > 0
    /\ waitingChangesMessages = <<>>
    /\ revFinderCalls = <<>>
    /\ \A id \in ChangeIDs :
           revs[id].state \in {"none", "unwanted", "norev",
                               "norevNoSequence", "finished"}
    /\ \E id \in ChangeIDs : revs[id].state # "none"

\* C27: in an active pull the progress units completed never exceed the
\* units total that the changes batches contributed, and once every
\* announced change has finished (not wanted, norev, success, permanent or
\* transient error) the two are equal, also when a sequence is announced
\* more than once or a body size is 0.
C27_ProgressCompletes ==
    nonPassive =>
        /\ progress.completed <= progress.total
        /\ AllChangesFinished => progress.completed = progress.total


(* ---------------------- properties of the mailbox ---------------------- *)

C29_BusyWhileQueued ==
    /\ (waitingChangesMessages # <<>> \/ waitingRevMessages # <<>>)
       /\ connected /\ ~fatalError
         => activityLevel(Cur) = kC4Busy
    /\ pendingRevMessages >= Len(waitingRevMessages)
    /\ waitingChangesMessages # <<>> => pendingRevMessages >= MaxPendingRevs

\* A changes message is queued while the Puller has caught up, no worker
\* is unfinished and no Rev-Finder call is outstanding: the level is Busy
\* on account of pendingRevMessages alone.
C29_Witness ==
    /\ waitingChangesMessages # <<>>
    /\ connected /\ ~fatalError
    /\ caughtUp
    /\ unfinishedIncomingRevs = 0
    /\ pendingRevFinderCalls = 0
    /\ ~baseWorkerBusy
    /\ activityLevel(Cur) = kC4Busy


\* The workers that have been started and not been through a
\* final-completion batch.
UnfinishedWorkers ==
    { id \in ChangeIDs : revs[id].state \in {"active", "returning"} }

\* C30: at the end of every step activeIncomingRevs is at most
\* unfinishedIncomingRevs and not below 0: unfinishedIncomingRevs counts
\* the workers started and not yet through a final-completion batch,
\* activeIncomingRevs those of them that have not reported their
\* provisional insertion, each of which leaves the count once, with its
\* provisional report or else in the final-completion pass.
C30_ActiveWithinUnfinished ==
    /\ 0 <= activeIncomingRevs
    /\ activeIncomingRevs <= unfinishedIncomingRevs
    /\ unfinishedIncomingRevs = Cardinality(UnfinishedWorkers)
    /\ activeIncomingRevs =
         Cardinality({ id \in UnfinishedWorkers :
                         ~revs[id].wasProvisionallyInserted })

\* A final-completion batch has taken a worker that never reported
\* provisional out of activeIncomingRevs, while a worker that has reported
\* is still unfinished.
C30_Witness ==
    /\ out.notified # <<>>
    /\ out.peak.active > activeIncomingRevs
    /\ activeIncomingRevs < unfinishedIncomingRevs

=============================================================================
